---------------------------- MODULE Spec2Model ----------------------------
(***************************************************************************)
(* ts-path-alias-to-relative (src/index.js): rewriting of import           *)
(* statements that use tsconfig path aliases into relative paths.          *)
(*                                                                         *)
(* JavaScript strings are sequences of one-character strings, so that      *)
(* String.prototype.includes / replace, the two regular expressions and    *)
(* Node's posix path functions are computed character by character.        *)
(***************************************************************************)
EXTENDS Naturals, Sequences, FiniteSets

(***************************************************************************)
(* Strings                                                                 *)
(***************************************************************************)

\* s.slice(i - 1, j): the characters i..j of s (1-based, empty when j < i)
Slice(s, i, j) == IF j < i THEN << >> ELSE SubSeq(s, i, j)

\* s.startsWith(p, i - 1): p occurs in s at (1-based) position i
OccursAt(s, p, i) ==
  /\ i >= 1
  /\ i + Len(p) - 1 <= Len(s)
  /\ \A k \in 1..Len(p) : s[i + k - 1] = p[k]

\* s.indexOf(p) + 1: the first position at which p occurs in s, 0 when none
IndexOf(s, p) ==
  LET hits == {i \in 1..(Len(s) + 1) : OccursAt(s, p, i)}
  IN  IF hits = {} THEN 0 ELSE CHOOSE i \in hits : \A j \in hits : i <= j

\* alias === excludedPath, in the place of alias.includes(excludedPath)
includesExact(s, p) == s = p

\* alias.includes(excludedPath)
includes(s, p) == IndexOf(s, p) # 0

\* s.replace(p, r) with a string pattern p: only the first occurrence of p,
\* wherever it is, is replaced (no character of the model is "$", so r has no
\* replacement pattern in it)
StrReplace(s, p, r) ==
  LET i == IndexOf(s, p)
  IN  IF i = 0 THEN s
      ELSE Slice(s, 1, i - 1) \o r \o Slice(s, i + Len(p), Len(s))

StartsWith(s, p) == OccursAt(s, p, 1)

RECURSIVE Concat(_)
\* ss.join('')
Concat(ss) == IF ss = << >> THEN << >> ELSE Head(ss) \o Concat(Tail(ss))

(***************************************************************************)
(* Node's path module (posix), as called by replaceAliases                 *)
(***************************************************************************)

SLASH == "/"
DOT == "."
DOTDOT == <<".", ".">>

RECURSIVE SplitOn(_, _)
\* s.split(sep), for a separator of one character: the parts of s, empty
\* ones included
SplitOn(s, sep) ==
  LET i == IndexOf(s, <<sep>>)
  IN  IF i = 0 THEN <<s>>
      ELSE <<Slice(s, 1, i - 1)>> \o SplitOn(Slice(s, i + 1, Len(s)), sep)

\* the segments of the path p
SplitSlash(p) == SplitOn(p, SLASH)

RECURSIVE JoinSlash(_)
\* segs.join('/')
JoinSlash(segs) ==
  IF segs = << >> THEN << >>
  ELSE IF Len(segs) = 1 THEN segs[1]
  ELSE segs[1] \o <<SLASH>> \o JoinSlash(Tail(segs))

RECURSIVE NormalizeSegs(_, _, _)
\* normalizeString: "" and "." segments are dropped, ".." removes the segment
\* before it, and is kept when there is none and the path is relative
NormalizeSegs(segs, acc, allowAboveRoot) ==
  IF segs = << >> THEN acc
  ELSE LET s == Head(segs)
           rest == Tail(segs)
       IN  IF s = << >> \/ s = <<DOT>> THEN NormalizeSegs(rest, acc, allowAboveRoot)
           ELSE IF s = DOTDOT
             THEN IF acc # << >> /\ acc[Len(acc)] # DOTDOT
                    THEN NormalizeSegs(rest, SubSeq(acc, 1, Len(acc) - 1), allowAboveRoot)
                    ELSE IF allowAboveRoot
                      THEN NormalizeSegs(rest, Append(acc, DOTDOT), allowAboveRoot)
                      ELSE NormalizeSegs(rest, acc, allowAboveRoot)
           ELSE NormalizeSegs(rest, Append(acc, s), allowAboveRoot)

\* path.normalize(p)
normalize(p) ==
  IF p = << >> THEN <<DOT>>
  ELSE LET isAbsolute == p[1] = SLASH
           trailingSeparator == p[Len(p)] = SLASH
           body == JoinSlash(NormalizeSegs(SplitSlash(p), << >>, ~isAbsolute))
       IN  IF body = << >>
             THEN IF isAbsolute THEN <<SLASH>>
                  ELSE IF trailingSeparator THEN <<DOT, SLASH>> ELSE <<DOT>>
             ELSE (IF isAbsolute THEN <<SLASH>> ELSE << >>) \o body
                  \o (IF trailingSeparator THEN <<SLASH>> ELSE << >>)

\* path.join(a, b): the non-empty arguments joined by "/" and normalized
pathJoin(a, b) ==
  LET joined == IF a = << >> THEN b
                ELSE IF b = << >> THEN a
                ELSE a \o <<SLASH>> \o b
  IN  IF joined = << >> THEN <<DOT>> ELSE normalize(joined)

\* the last position of "/" in p, 0 when none
LastSlash(p) ==
  LET hits == {i \in 1..Len(p) : p[i] = SLASH}
  IN  IF hits = {} THEN 0 ELSE CHOOSE i \in hits : \A j \in hits : j <= i

\* path.dirname(p), for a path that does not end in "/"
pathDirname(p) ==
  LET i == LastSlash(p)
  IN  IF i = 0 THEN <<DOT>>
      ELSE IF i = 1 THEN <<SLASH>>
      ELSE Slice(p, 1, i - 1)

\* process.cwd(), as segments: the directory the tool is started in
Cwd == << <<"w">> >>

\* path.resolve(p): the segments of the absolute path of p
pathResolve(p) ==
  IF p # << >> /\ p[1] = SLASH
    THEN NormalizeSegs(SplitSlash(p), << >>, FALSE)
    ELSE NormalizeSegs(Cwd \o SplitSlash(p), << >>, FALSE)

RECURSIVE CommonLen(_, _)
\* the number of leading segments two resolved paths share
CommonLen(a, b) ==
  IF a = << >> \/ b = << >> \/ Head(a) # Head(b) THEN 0
  ELSE 1 + CommonLen(Tail(a), Tail(b))

\* path.relative(from, to): "" when both resolve to the same directory, else
\* one ".." per remaining segment of from, then the remaining segments of to
pathRelative(from, to) ==
  LET f == pathResolve(from)
      t == pathResolve(to)
      c == CommonLen(f, t)
      ups == [i \in 1..(Len(f) - c) |-> DOTDOT]
  IN  JoinSlash(ups \o Slice(t, c + 1, Len(t)))

(***************************************************************************)
(* Regular expressions                                                     *)
(***************************************************************************)

WordChars ==
  {"a", "b", "c", "d", "e", "f", "g", "h", "i", "j", "k", "l", "m", "n", "o",
   "p", "q", "r", "s", "t", "u", "v", "w", "x", "y", "z", "A", "B", "C", "D",
   "E", "F", "G", "H", "I", "J", "K", "L", "M", "N", "O", "P", "Q", "R", "S",
   "T", "U", "V", "W", "X", "Y", "Z", "0", "1", "2", "3", "4", "5", "6", "7",
   "8", "9", "_"}

\* \s
Whitespace == {" ", "\t", "\n", "\r"}

\* [\w{},*\s]
BindingChars == WordChars \cup {"{", "}", ",", "*"} \cup Whitespace

\* ['"]
Quotes == {"'", "\""}

ANYSEQ == ".*"

RECURSIVE CompileAlias(_)
\* the source of new RegExp('^' + alias.replace(/\*/g, '.*') + '$') between
\* its anchors, one token per element: ".*" for each "*" of the alias, and
\* every other character as it stands, so that a "." of the alias is the
\* regular expression's "any character". (The aliases of the model hold no
\* other character that is special in a regular expression.)
CompileAlias(alias) ==
  IF alias = << >> THEN << >>
  ELSE <<IF Head(alias) = "*" THEN ANYSEQ ELSE Head(alias)>> \o CompileAlias(Tail(alias))

RECURSIVE RegexMatch(_, _)
\* whether the tokens match all of s: ".*" any run of characters but line
\* ends, "." one such character, any other token itself
RegexMatch(toks, s) ==
  IF toks = << >> THEN s = << >>
  ELSE LET t == Head(toks)
       IN  IF t = ANYSEQ
             THEN \E k \in 0..Len(s) :
                    /\ \A j \in 1..k : s[j] \notin {"\n", "\r"}
                    /\ RegexMatch(Tail(toks), Slice(s, k + 1, Len(s)))
             ELSE /\ s # << >>
                  /\ IF t = DOT THEN Head(s) \notin {"\n", "\r"} ELSE Head(s) = t
                  /\ RegexMatch(Tail(toks), Tail(s))

\* aliasRegex.test(importPath): the expression is anchored at both ends
aliasRegexTest(aliasRegex, importPath) == RegexMatch(aliasRegex, importPath)

\* the smallest element of a non-empty set of numbers, 0 for the empty set
MinOr0(S) == IF S = {} THEN 0 ELSE CHOOSE i \in S : \A j \in S : i <= j

\* the number of whitespace characters s ends with
TrailingWs(s) ==
  LET nonWs == {i \in 1..Len(s) : s[i] \notin Whitespace}
  IN  IF nonWs = {} THEN Len(s)
      ELSE Len(s) - (CHOOSE i \in nonWs : \A j \in nonWs : j <= i)

\* whether m, all of whose characters are in [\w{},*\s], matches
\* \s+[\w{},*\s]+\s+from\s+ : it ends with "from" and whitespace, and what
\* precedes "from" starts and ends with whitespace around a character or more
BindingsFrom(m) ==
  LET k == TrailingWs(m)
      n == Len(m)
  IN  /\ k >= 1
      /\ n - k >= 7
      /\ Slice(m, n - k - 3, n - k) = <<"f", "r", "o", "m">>
      /\ m[1] \in Whitespace
      /\ m[n - k - 4] \in Whitespace

\* importRegex: /import\s+[\w{},*\s]+\s+from\s+['"]([^'"]+)['"];/ tried at
\* position i of text. All between "import" and the first quote has to be in
\* [\w{},*\s], the path literal runs to the next quote, whichever of the two
\* quote characters it is, and a ";" has to follow. The position of the ";"
\* when the expression matches, else 0.
importRegexEnd(text, i) ==
  IF ~OccursAt(text, <<"i", "m", "p", "o", "r", "t">>, i) THEN 0
  ELSE LET q == MinOr0({j \in (i + 6)..Len(text) : text[j] \notin BindingChars})
       IN  IF q = 0 THEN 0
           ELSE IF text[q] \notin Quotes \/ ~BindingsFrom(Slice(text, i + 6, q - 1)) THEN 0
           ELSE LET q2 == MinOr0({j \in (q + 1)..Len(text) : text[j] \in Quotes})
                IN  IF q2 = 0 \/ q2 = q + 1 \/ q2 + 1 > Len(text) THEN 0
                    ELSE IF text[q2 + 1] # ";" THEN 0
                    ELSE q2 + 1

\* the capture group of importRegex for the match at i that ends at e
importRegexPath(text, i, e) ==
  LET q == MinOr0({j \in (i + 6)..Len(text) : text[j] \in Quotes})
  IN  Slice(text, q + 1, e - 2)

RECURSIVE ScanImports(_, _)
\* the matches of importRegex with its g flag, from position pos on: leftmost
\* first, each search starting behind the match before
ScanImports(text, pos) ==
  LET i == MinOr0({j \in pos..Len(text) : importRegexEnd(text, j) # 0})
  IN  IF i = 0 THEN << >>
      ELSE LET e == importRegexEnd(text, i)
           IN  <<[match |-> Slice(text, i, e), importPath |-> importRegexPath(text, i, e)]>>
               \o ScanImports(text, e + 1)

(***************************************************************************)
(* preparePaths                                                            *)
(***************************************************************************)

RECURSIVE SelectSeq2(_, _)
\* entries.filter(([alias]) => !excludedPaths.some(e => alias.includes(e)))
SelectSeq2(entries, excludedPaths) ==
  IF entries = << >> THEN << >>
  ELSE LET e == Head(entries)
           skip == \E i \in 1..Len(excludedPaths) : includes(e.alias, excludedPaths[i])
       IN  (IF skip THEN << >> ELSE <<e>>) \o SelectSeq2(Tail(entries), excludedPaths)

\* .map(([alias, paths]) => ({aliasRegex, alias, path})): the first "/*" of
\* the alias and of its first target are removed, the other targets ignored
aliasRule(e) ==
  [aliasRegex |-> CompileAlias(e.alias),
   alias |-> StrReplace(e.alias, <<"/", "*">>, << >>),
   path |-> StrReplace(e.paths[1], <<"/", "*">>, << >>)]

\* the comparator (a, b) => a.alias.length - b.alias.length
ShorterFirst(a, b) == Len(a.alias) < Len(b.alias)

\* the comparator of .sort((a, b) => b.alias.length - a.alias.length): a goes
\* before b
LongerFirst(a, b) == Len(a.alias) > Len(b.alias)

RECURSIVE SortRules(_)
\* Array.prototype.sort, which is stable: a rule is put behind the rules that
\* do not have to come after it
SortRules(rules) ==
  IF rules = << >> THEN << >>
  ELSE LET n == Len(rules)
           last == rules[n]
           done == SortRules(SubSeq(rules, 1, n - 1))
           before == {i \in 1..Len(done) : ~LongerFirst(last, done[i])}
           k == Cardinality(before)
       IN  SubSeq(done, 1, k) \o <<last>> \o SubSeq(done, k + 1, Len(done))

\* preparePaths(tsconfig, excludedPaths), for a tsconfig that has
\* compilerOptions.paths
preparePaths(tsconfig, excludedPaths) ==
  LET kept == SelectSeq2(tsconfig.paths, excludedPaths)
  IN  SortRules([i \in 1..Len(kept) |-> aliasRule(kept[i])])

(***************************************************************************)
(* findMatches and replaceAliases                                          *)
(***************************************************************************)

\* the callback findMatches gives to replace: the first rule of the table
\* whose aliasRegex tests true makes the match, none makes none
matchOf(found, paths) ==
  LET hits == {i \in 1..Len(paths) : aliasRegexTest(paths[i].aliasRegex, found.importPath)}
  IN  IF hits = {} THEN << >>
      ELSE LET r == paths[MinOr0(hits)]
           IN  <<[match |-> found.match, alias |-> r.alias,
                  importPath |-> found.importPath, aliasPath |-> r.path]>>

\* findMatches, from the content readFileSync returned
findMatches(targetFileContent, paths) ==
  LET found == ScanImports(targetFileContent, 1)
  IN  Concat([i \in 1..Len(found) |-> matchOf(found[i], paths)])

\* the body of replaceAliases' forEach for one match
rewriteOf(m, targetFilePath) ==
  LET relativePathToAliasPath == StrReplace(m.importPath, m.alias, << >>)
      relativePath == pathRelative(pathDirname(targetFilePath), m.aliasPath)
      longestRelativeImportPath == pathJoin(relativePath, relativePathToAliasPath)
  IN  [match |-> m.match,
       alias |-> m.alias,
       importPath |-> m.importPath,
       relativePathToAliasPath |-> relativePathToAliasPath,
       longestRelativeImportPath |-> longestRelativeImportPath,
       fixedRelativeImportPath |->
         StrReplace(m.match, m.importPath, longestRelativeImportPath)]

RECURSIVE replaceAliases(_, _, _)
\* replaceAliases: match after match, the first occurrence of the statement in
\* the result so far is replaced by the fixed statement
replaceAliases(matches, targetFileContent, targetFilePath) ==
  IF matches = << >> THEN targetFileContent
  ELSE LET rw == rewriteOf(Head(matches), targetFilePath)
       IN  replaceAliases(Tail(matches),
                          StrReplace(targetFileContent, rw.match, rw.fixedRelativeImportPath),
                          targetFilePath)

(***************************************************************************)
(* init and what it calls                                                  *)
(***************************************************************************)

\* the value undefined, where a path or a pattern is expected
Undefined == "undefined"

\* path.join(process.cwd(), 'tsconfig.json'), ... 'tsconfig.base.json'
DefaultTsConfigPaths == <<"tsconfig.json", "tsconfig.base.json">>

\* getGivenOrDefaultTsConfigPath(argsTsConfig): the given path when a file is
\* there, the first default path where one is when none is given, else
\* undefined. existing: the paths fs.existsSync answers true for.
getGivenOrDefaultTsConfigPath(argsTsConfig, existing) ==
  IF argsTsConfig # Undefined
    THEN IF argsTsConfig \in existing THEN argsTsConfig ELSE Undefined
    ELSE LET found == {i \in 1..Len(DefaultTsConfigPaths) : DefaultTsConfigPaths[i] \in existing}
         IN  IF found = {} THEN Undefined ELSE DefaultTsConfigPaths[MinOr0(found)]

\* the patterns glob.hasMagic answers true for, among those of the model
MagicPatterns == {"**/*.ts", "**/node_modules/**"}

\* getGivenOrDefaultFileGlob(globPattern, argName): the pattern when it is
\* not empty and glob.hasMagic(globPattern), else undefined
getGivenOrDefaultFileGlob(globPattern) ==
  IF globPattern # "" /\ globPattern \in MagicPatterns THEN globPattern ELSE Undefined

\* init() with the exit code as a parameter: process.exit(code) without a
\* tsconfig path or a target pattern (the exclude pattern is not looked at),
\* else the options read from the command line
initWith(args, existing, code) ==
  LET excludeAlias == IF args.excludeAlias # << >>
                        THEN SplitOn(args.excludeAlias, ",") ELSE << >>
      tsconfigPath == getGivenOrDefaultTsConfigPath(args.tsconfig, existing)
      targetGlob == getGivenOrDefaultFileGlob(args.target)
      excludeGlob == getGivenOrDefaultFileGlob(args.exclude)
  IN  [exit |-> tsconfigPath = Undefined \/ targetGlob = Undefined,
       code |-> code,
       tsconfigPath |-> tsconfigPath, targetGlob |-> targetGlob,
       excludeAlias |-> excludeAlias, excludeGlob |-> excludeGlob,
       dry |-> args.dry]

\* init() with process.exit(0) in the place of process.exit(1)
initExitZero(args, existing) == initWith(args, existing, 0)

\* init(): exit is whether it ended the process, with code 1; the options
\* are what it returns when it did not
init(args, existing) == initWith(args, existing, 1)

(***************************************************************************)
(* The state                                                               *)
(***************************************************************************)

VARIABLES
  argv,                   \* the command line: [tsconfig, target, exclude, excludeAlias, dry]
  existing,               \* the tsconfig paths at which a file exists
  tsconfig,               \* the parsed tsconfig: [hasPaths, paths]
  excludedPaths,          \* the alias exclusion list given to preparePaths
  files,                  \* the file list given to replaceImports
  src,                    \* per file, the lines its content was written from
  fs,                     \* the file system: per file [readable, content]
  cliOptions,             \* the exported cliOptions object: [dry, verbose]
  paths,                  \* the alias table preparePaths returned
  pc,                     \* where the caller and replaceImports are
  idx,                    \* replaceImports: the index of the file of forEach
  matches,                \* replaceImports: matches of the file
  targetFileContent,      \* replaceImports: content of the file
  result,                 \* replaceImports: the rewritten content
  fixedImportStatements,  \* replaceImports: its counter
  log                     \* what the run did: reads, rewrites, writes, exits

vars == <<argv, existing, tsconfig, excludedPaths, files, src, fs, cliOptions,
          paths, pc, idx, matches, targetFileContent, result,
          fixedImportStatements, log>>

inputs == <<argv, existing, tsconfig, excludedPaths, files, src>>

Event(ev, file, data) == [ev |-> ev, file |-> file, data |-> data]

NoFile == << >>

(***************************************************************************)
(* main                                                                    *)
(***************************************************************************)

\* main(): init() ends the process with code 1, or returns the options; then
\* line 179 assigns them to cliOptions, which "export const" declares: the
\* assignment throws a TypeError, cliOptions keeps its value, and nothing
\* behind line 179 is run (lines 181 and 182 read clitsconfigPath and
\* excludedPaths, which nothing declares).
main ==
  /\ pc = "idle"
  /\ LET r == init(argv, existing)
     IN  IF r.exit
           THEN /\ pc' = "exited"
                /\ log' = Append(log, Event("exit", NoFile, r.code))
           ELSE /\ pc' = "threw"
                /\ log' = Append(log, Event("throw", NoFile, 179))
  /\ UNCHANGED <<inputs, fs, cliOptions, paths, idx, matches, targetFileContent,
                 result, fixedImportStatements>>

(***************************************************************************)
(* preparePaths and replaceImports, called with a tsconfig and a file list *)
(***************************************************************************)

\* preparePaths(tsconfig, excludedPaths): Object.entries throws a TypeError
\* when the tsconfig has no compilerOptions.paths
callPreparePaths ==
  /\ pc = "idle"
  /\ IF tsconfig.hasPaths
       THEN /\ paths' = preparePaths(tsconfig, excludedPaths)
            /\ pc' = "prepared"
            /\ log' = log
       ELSE /\ paths' = paths
            /\ pc' = "threw"
            /\ log' = Append(log, Event("throw", NoFile, 120))
  /\ UNCHANGED <<inputs, fs, cliOptions, idx, matches, targetFileContent, result,
                 fixedImportStatements>>

\* where forEach goes after the file at index i
NextFile(i) == IF i < Len(files) THEN "find" ELSE "done"

\* replaceImports({files, paths}), up to its forEach
replaceImports ==
  /\ pc = "prepared"
  /\ fixedImportStatements' = 0
  /\ idx' = 1
  /\ pc' = NextFile(0)
  /\ UNCHANGED <<inputs, fs, cliOptions, paths, matches, targetFileContent, result, log>>

\* findMatches(file, paths) for the file of forEach: readFileSync throws for
\* a file that cannot be read, and nothing in findMatches, forEach or
\* replaceImports catches it; a file without matches ends its turn
findMatchesStep ==
  /\ pc = "find"
  /\ LET file == files[idx]
     IN  IF ~fs[file].readable
           THEN /\ pc' = "threw"
                /\ log' = Append(log, Event("throw", file, 141))
                /\ UNCHANGED <<idx, matches, targetFileContent>>
           ELSE LET content == fs[file].content
                    found == findMatches(content, paths)
                IN  /\ matches' = found
                    /\ targetFileContent' = content
                    /\ log' = Append(log, Event("read", file, content))
                    /\ IF found = << >>
                         THEN /\ pc' = NextFile(idx)
                              /\ idx' = idx + 1
                         ELSE /\ pc' = "replace"
                              /\ idx' = idx
  /\ UNCHANGED <<inputs, fs, cliOptions, paths, result, fixedImportStatements>>

\* replaceAliases(matches, targetFileContent, file) and the counter
replaceAliasesStep ==
  /\ pc = "replace"
  /\ result' = replaceAliases(matches, targetFileContent, files[idx])
  /\ fixedImportStatements' = fixedImportStatements + Len(matches)
  /\ log' = log \o [i \in 1..Len(matches) |->
                      Event("replaced", files[idx], rewriteOf(matches[i], files[idx]))]
  /\ pc' = "write"
  /\ UNCHANGED <<inputs, fs, cliOptions, paths, idx, matches, targetFileContent>>

\* writeResultToFile(file, result): returns at once when cliOptions.dry
writeResultToFile ==
  /\ pc = "write"
  /\ IF cliOptions.dry
       THEN /\ fs' = fs
            /\ log' = Append(log, Event("handed", files[idx], result))
       ELSE /\ fs' = [fs EXCEPT ![files[idx]].content = result]
            /\ log' = log \o <<Event("handed", files[idx], result),
                               Event("write", files[idx], result)>>
  /\ pc' = NextFile(idx)
  /\ idx' = idx + 1
  /\ UNCHANGED <<inputs, cliOptions, paths, matches, targetFileContent, result,
                 fixedImportStatements>>

Next ==
  \/ main
  \/ callPreparePaths
  \/ replaceImports
  \/ findMatchesStep
  \/ replaceAliasesStep
  \/ writeResultToFile

(***************************************************************************)
(* Inputs                                                                  *)
(***************************************************************************)

\* the bounds of the inputs
MaxAliases == 2
MaxExcluded == 1
MaxLines == 2
MaxFiles == 2

\* the sequences of at most n different elements of S
SeqsUpTo(S, n) ==
  {q \in UNION {[1..k -> S] : k \in 0..n} : \A i, j \in 1..Len(q) : i # j => q[i] # q[j]}

Entry(alias, targets) == [alias |-> alias, paths |-> targets]

\* "@a/*": ["s/a/*"]
E_app == Entry(<<"@", "a", "/", "*">>, <<<<"s", "/", "a", "/", "*">>>>)
\* "@a/c/*": ["s/a/c/*", "t/c/*"]
E_core == Entry(<<"@", "a", "/", "c", "/", "*">>, <<<<"s", "/", "a", "/", "c", "/", "*">>, <<"t", "/", "c", "/", "*">>>>)
\* "*": ["s/*"]
E_star == Entry(<<"*">>, <<<<"s", "/", "*">>>>)
\* "@c": ["s/c"]
E_exact == Entry(<<"@", "c">>, <<<<"s", "/", "c">>>>)
\* "a.c/*": ["s/d/*"]
E_dot == Entry(<<"a", ".", "c", "/", "*">>, <<<<"s", "/", "d", "/", "*">>>>)

\* "@a/*c": ["s/m/*"]
E_mid == Entry(<<"@", "a", "/", "*", "c">>, <<<<"s", "/", "m", "/", "*">>>>)

\* the entries compilerOptions.paths is made of: a wildcard at the end, under
\* a longer prefix, alone, none, after a "." and before a suffix
AliasEntries == {E_app, E_core, E_star, E_exact, E_dot, E_mid}

\* the values of compilerOptions.paths, in the order of Object.entries
TsConfigs == {[hasPaths |-> TRUE, paths |-> q] : q \in SeqsUpTo(AliasEntries, MaxAliases)}

\* a tsconfig without compilerOptions.paths
NoPaths == [hasPaths |-> FALSE, paths |-> << >>]

\* the entries an exclusion list is made of: "a", "@a/c", "c", "@a/*" and ""
ExcludedPool == {<<"a">>, <<"@", "a", "/", "c">>, <<"c">>, <<"@", "a", "/", "*">>, << >>}

ExcludedLists == SeqsUpTo(ExcludedPool, MaxExcluded)

\* @a/x
P_app_x == <<"@", "a", "/", "x">>
\* @a/c/x
P_core_x == <<"@", "a", "/", "c", "/", "x">>
\* @c
P_exact == <<"@", "c">>
\* @c/x
P_exact_x == <<"@", "c", "/", "x">>
\* ./x
P_here == <<".", "/", "x">>
\* ../x
P_up == <<".", ".", "/", "x">>
\* x
P_bare == <<"x">>
\* abc/a.c
P_dot == <<"a", "b", "c", "/", "a", ".", "c">>
\* @a/xc
P_mid == <<"@", "a", "/", "x", "c">>

\* the module paths of the import statements
ImportPaths ==
  {P_app_x, P_core_x, P_exact, P_exact_x, P_here, P_up, P_bare, P_dot, P_mid}

\* s/p/h.ts, s/a/h.ts, h.ts: the files, one beside the alias targets, one in
\* the target of "@a/*", one above them
F_pages == <<"s", "/", "p", "/", "h", ".", "t", "s">>
F_app == <<"s", "/", "a", "/", "h", ".", "t", "s">>
F_root == <<"h", ".", "t", "s">>

FileNames == {F_pages, F_app, F_root}

\* a line of a file: an import statement written from its parts (with or
\* without the ";"), or other text
ImportLine(bindings, quote, path, semi) ==
  [kind |-> "import", bindings |-> bindings, quote |-> quote, path |-> path,
   semi |-> semi, text |-> << >>]

TextLine(text) ==
  [kind |-> "text", bindings |-> << >>, quote |-> "'", path |-> << >>,
   semi |-> FALSE, text |-> text]

\* the text of the statement of an import line
Statement(l) ==
  <<"i", "m", "p", "o", "r", "t", " ">> \o l.bindings \o <<" ", "f", "r", "o", "m", " ">> \o <<l.quote>> \o l.path \o <<l.quote>>
  \o (IF l.semi THEN <<";">> ELSE << >>)

\* the text of a line, its line end included
RenderLine(l) == (IF l.kind = "import" THEN Statement(l) ELSE l.text) \o <<"\n">>

\* the content of a file written from the lines ls
Render(ls) == Concat([i \in 1..Len(ls) |-> RenderLine(ls[i])])

B_x == <<"x">>
B_named == <<"{", "a", ",", " ", "b", "}">>

\* import x from '<path>';  import {a, b} from "<path>";  the same without
\* the ";", and a line that is no import
Lines ==
  {ImportLine(B_x, "'", p, TRUE) : p \in ImportPaths}
  \cup {ImportLine(B_named, "\"", p, TRUE) : p \in {P_app_x, P_here}}
  \cup {ImportLine(B_x, "'", P_app_x, FALSE), TextLine(<<"x", " ", "=", " ", "1", ";">>)}

\* the lines a file is written from
Sources == UNION {[1..k -> Lines] : k \in 0..MaxLines}

\* the command lines: --tsconfig given or not, --target and --exclude with
\* and without magic and empty, --exclude-alias "a,@c" or none, --dry given
\* or not
Argvs ==
  [tsconfig : {Undefined, "my.json"},
   target : {"**/*.ts", "src/a.ts", ""},
   exclude : {"**/node_modules/**", "node_modules", ""},
   excludeAlias : {<< >>, <<"a", ",", "@", "c">>},
   dry : BOOLEAN]

ConfigFiles == {"my.json", "tsconfig.json", "tsconfig.base.json"}

\* npx ts-path-alias-to-relative -t my.json -d, with my.json there
PlainArgv == [tsconfig |-> "my.json", target |-> "**/*.ts",
              exclude |-> "**/node_modules/**", excludeAlias |-> << >>, dry |-> TRUE]

\* the state when the module is loaded, for the inputs given
Start(args, ex, ts, excl, fl, sr, readable) ==
  /\ argv = args
  /\ existing = ex
  /\ tsconfig = ts
  /\ excludedPaths = excl
  /\ files = fl
  /\ src = sr
  /\ fs = [f \in FileNames |-> [readable |-> readable[f], content |-> Render(sr[f])]]
  /\ cliOptions = [tsconfigPath |-> "null", targetGlob |-> "null",
                   excludeAlias |-> "null", excludeGlob |-> "null",
                   verbose |-> TRUE, dry |-> TRUE]
  /\ paths = << >>
  /\ pc = "idle"
  /\ idx = 0
  /\ matches = << >>
  /\ targetFileContent = << >>
  /\ result = << >>
  /\ fixedImportStatements = 0
  /\ log = << >>

AllReadable == [f \in FileNames |-> TRUE]

\* only file f has lines
OnlyFile(f, ls) == [g \in FileNames |-> IF g = f THEN ls ELSE << >>]

\* one file with one import statement: all alias tables, exclusion lists and
\* module paths
InitTable ==
  \E ts \in TsConfigs, excl \in ExcludedLists, p \in ImportPaths :
    Start(PlainArgv, {"my.json"}, ts, excl, <<F_pages>>,
          OnlyFile(F_pages, <<ImportLine(B_x, "'", p, TRUE)>>), AllReadable)

\* the alias tables of one entry, and of "@a/*" with "*"
FileTsConfigs ==
  {[hasPaths |-> TRUE, paths |-> <<e>>] : e \in AliasEntries}
  \cup {[hasPaths |-> TRUE, paths |-> <<E_star, E_app>>]}

\* one file, at each place, with each content
InitFile ==
  \E ts \in FileTsConfigs, f \in FileNames, ls \in Sources :
    Start(PlainArgv, {"my.json"}, ts, << >>, <<f>>, OnlyFile(f, ls), AllReadable)

\* what the files of a run hold: an alias import, or a relative import
RunSources == {<<ImportLine(B_x, "'", P_app_x, TRUE)>>, <<ImportLine(B_x, "'", P_here, TRUE)>>}

\* all command lines and tsconfig files; and all file lists, with files that
\* cannot be read, with and without compilerOptions.paths
InitRun ==
  \/ \E args \in Argvs, ex \in SUBSET ConfigFiles :
       Start(args, ex, [hasPaths |-> TRUE, paths |-> <<E_app>>], << >>, <<F_pages>>,
             OnlyFile(F_pages, <<ImportLine(B_x, "'", P_app_x, TRUE)>>), AllReadable)
  \/ \E ts \in {[hasPaths |-> TRUE, paths |-> <<E_app>>], NoPaths},
        fl \in SeqsUpTo(FileNames, MaxFiles),
        sr \in [FileNames -> RunSources],
        readable \in [FileNames -> BOOLEAN] :
       Start(PlainArgv, {"my.json"}, ts, << >>, fl, sr, readable)

Spec == InitRun /\ [][Next]_vars

SpecTable == InitTable /\ [][Next]_vars

SpecFile == InitFile /\ [][Next]_vars

(***************************************************************************)
(* What the log says                                                       *)
(***************************************************************************)

Logged(ev) == {i \in 1..Len(log) : log[i].ev = ev}

\* findMatches has read file f
WasRead(f) == \E i \in Logged("read") : log[i].file = f

\* main was called, and has ended: in process.exit, or in the TypeError of
\* line 179
MainEnded ==
  /\ log # << >>
  /\ \/ log[1].ev = "exit"
     \/ log[1].ev = "throw" /\ log[1].data = 179

\* no file of the file list was read, rewritten or written
NoFileProcessed ==
  Logged("read") \cup Logged("replaced") \cup Logged("handed") \cup Logged("write") = {}

\* p occurs in s, from the definition of a substring
IsSubstring(p, s) ==
  \E i \in 1..(Len(s) + 1) :
    i + Len(p) <= Len(s) + 1 /\ Slice(s, i, i + Len(p) - 1) = p

\* the file of a model with one file
TheFile == files[1]

(***************************************************************************)
(* The properties                                                          *)
(***************************************************************************)

\* C1: the table preparePaths built is in non-increasing order of the length
\* of the stripped alias, and for the import statement of the file
\* findMatches records a match exactly when some rule's matcher matches the
\* module path; the rule recorded is a matching rule whose stripped alias is
\* at least as long as that of every matching rule.
C1_LongestPrefixFirst ==
  WasRead(TheFile) =>
    LET p == src[TheFile][1].path
        matching == {i \in 1..Len(paths) : aliasRegexTest(paths[i].aliasRegex, p)}
    IN  /\ \A i, j \in 1..Len(paths) :
             i < j => Len(paths[i].alias) >= Len(paths[j].alias)
        /\ IF matching = {} THEN matches = << >>
           ELSE /\ Len(matches) = 1
                /\ matches[1].importPath = p
                /\ \E i \in matching :
                     /\ paths[i].alias = matches[1].alias
                     /\ paths[i].path = matches[1].aliasPath
                /\ \A j \in matching : Len(paths[j].alias) <= Len(matches[1].alias)

\* C1's case: "@a/*" and "@a/c/*" both match '@a/c/x', with "@a/*" first in
\* the tsconfig, and the statement is resolved with "@a/c/*"
C1_Witness ==
  /\ WasRead(TheFile)
  /\ tsconfig.paths = <<E_app, E_core>>
  /\ src[TheFile][1].path = P_core_x
  /\ Len(paths) = 2
  /\ aliasRegexTest(paths[1].aliasRegex, P_core_x)
  /\ aliasRegexTest(paths[2].aliasRegex, P_core_x)
  /\ Len(matches) = 1
  /\ matches[1].alias = <<"@", "a", "/", "c">>
  /\ matches[1].aliasPath = <<"s", "/", "a", "/", "c">>

\* C2: replaceAliases changes nothing but the module path literal of the
\* statements recorded: its result is the file written from the same lines,
\* the path of each recorded statement replaced by the new path.
C2_OnlyTheLiteralChanges ==
  pc = "write" =>
    LET ls == src[TheFile]
        hit(l) == {i \in 1..Len(matches) : l.kind = "import" /\ matches[i].match = Statement(l)}
        fixed(l) ==
          IF hit(l) = {} THEN l
          ELSE [l EXCEPT !.path =
                  rewriteOf(matches[MinOr0(hit(l))], TheFile).longestRelativeImportPath]
    IN  result = Render([i \in 1..Len(ls) |-> fixed(ls[i])])

\* C3: every new path replaceAliases writes begins with "./" or "../".
C3_NewPathIsRelative ==
  \A i \in Logged("replaced") :
    \/ StartsWith(log[i].data.longestRelativeImportPath, <<".", "/">>)
    \/ StartsWith(log[i].data.longestRelativeImportPath, <<".", ".", "/">>)

\* C4: when replaceImports has ended, every file of the list that can be read
\* has been scanned: a file that cannot be read stops no other file.
C4_OtherFilesStillProcessed ==
  (pc \in {"done", "threw"} /\ idx >= 1) =>
    \A i \in 1..Len(files) : fs[files[i]].readable => WasRead(files[i])

\* C5: a run of main that init lets pass gets to the gate of the writes (the
\* report of the changes in dry mode, else the prompt, asked once) instead of
\* ending in an exception, and no file is written in dry mode.
C5_RunGetsToTheWriteGate ==
  (MainEnded /\ ~init(argv, existing).exit) =>
    /\ pc # "threw"
    /\ argv.dry => Logged("write") = {}

\* C6: a file all of whose import paths are relative has no matches, is not
\* handed to writeResultToFile and is left as it is.
C6_RelativeImportsUntouched ==
  (pc = "done" /\ idx >= 1
     /\ \A i \in 1..Len(src[TheFile]) :
          src[TheFile][i].kind = "import" =>
            \/ StartsWith(src[TheFile][i].path, <<".", "/">>)
            \/ StartsWith(src[TheFile][i].path, <<".", ".", "/">>))
  => /\ Logged("replaced") \cup Logged("handed") \cup Logged("write") = {}
     /\ fixedImportStatements = 0
     /\ fs[TheFile].content = Render(src[TheFile])

\* the command line and the tsconfig have one of the fatal errors: no tsconfig
\* path, no compilerOptions.paths, a target or an exclude pattern that is no
\* glob pattern
Fatal ==
  \/ getGivenOrDefaultTsConfigPath(argv.tsconfig, existing) = Undefined
  \/ ~tsconfig.hasPaths
  \/ argv.target \notin MagicPatterns
  \/ argv.exclude # "" /\ argv.exclude \notin MagicPatterns

\* C7: a run of main with a fatal configuration or pattern error ends as a
\* failure (process.exit with a code that is not 0, or an exception nothing
\* catches) and processes no file; preparePaths, given a tsconfig without
\* compilerOptions.paths, throws and builds no table. (init ends the run for
\* a missing tsconfig path or target pattern; with only the exclude pattern
\* or compilerOptions.paths at fault, the failure is the TypeError of line
\* 179.)
C7_FatalErrorsStopTheRun ==
  /\ (MainEnded /\ Fatal) =>
       /\ pc \in {"exited", "threw"}
       /\ log[1].ev = "exit" => log[1].data # 0
       /\ NoFileProcessed
  /\ (~tsconfig.hasPaths /\ pc # "idle" /\ ~MainEnded) =>
       /\ pc = "threw"
       /\ paths = << >>
       /\ NoFileProcessed

\* C7's case: --target src/a.ts is no glob pattern, all else is in order, and
\* init has ended the process with code 1
C7_Witness ==
  /\ MainEnded
  /\ argv.target = "src/a.ts"
  /\ argv.exclude = "**/node_modules/**"
  /\ getGivenOrDefaultTsConfigPath(argv.tsconfig, existing) # Undefined
  /\ pc = "exited"
  /\ log = <<Event("exit", NoFile, 1)>>

\* the table was built
Prepared == pc \in {"prepared", "find", "replace", "write", "done"}

\* C8: the table holds no rule of an alias that has an entry of the exclusion
\* list as a substring, and one rule of every other alias, and nothing else.
C8_ExcludedBySubstring ==
  Prepared =>
    LET excluded(e) == \E i \in 1..Len(excludedPaths) : IsSubstring(excludedPaths[i], e.alias)
        rulesOf(e) == {i \in 1..Len(paths) : paths[i].aliasRegex = CompileAlias(e.alias)}
        kept == {k \in 1..Len(tsconfig.paths) : ~excluded(tsconfig.paths[k])}
    IN  /\ \A k \in 1..Len(tsconfig.paths) :
             Cardinality(rulesOf(tsconfig.paths[k])) = IF k \in kept THEN 1 ELSE 0
        /\ Len(paths) = Cardinality(kept)

\* C8's case: the exclusion "a" is a part of "@a/*" and no part of "*"; the
\* table holds the rule of "*" alone
C8_Witness ==
  /\ Prepared
  /\ excludedPaths = <<<<"a">>>>
  /\ tsconfig.paths = <<E_app, E_star>>
  /\ Len(paths) = 1
  /\ paths[1].alias = <<"*">>

\* C9: what replaceAliases joins onto the relative base is the module path
\* without the stripped alias at its front, and the module path itself when it
\* does not begin with the stripped alias.
C9_PrefixRemovedAtTheFront ==
  \A i \in Logged("replaced") :
    LET d == log[i].data
    IN  d.relativePathToAliasPath =
          IF StartsWith(d.importPath, d.alias)
            THEN Slice(d.importPath, Len(d.alias) + 1, Len(d.importPath))
            ELSE d.importPath

\* the statements of the lines ls whose module path a rule of the table matches
RECURSIVE AliasStatements(_)
AliasStatements(ls) ==
  IF ls = << >> THEN << >>
  ELSE LET l == Head(ls)
           aliased == /\ l.kind = "import"
                      /\ \E i \in 1..Len(paths) : aliasRegexTest(paths[i].aliasRegex, l.path)
       IN  (IF aliased THEN <<Statement(l)>> ELSE << >>) \o AliasStatements(Tail(ls))

\* C10: findMatches records the import statements of the file whose path a
\* rule matches, with or without a ";" at their end, once each and in the
\* order of the file.
C10_EveryStatementRecorded ==
  WasRead(TheFile) =>
    [i \in 1..Len(matches) |-> matches[i].match] = AliasStatements(src[TheFile])

=============================================================================
